---------------------------- MODULE Spec2Model ----------------------------
(***************************************************************************)
(* A model of kmsgrab (src/kmsgrab.c): the capture service run_daemon, the *)
(* capture pipeline grab_once and the two encoders save_png and save_jpg,  *)
(* one action per statement group that acquires, releases or decides       *)
(* something.  Bytes and characters are their ASCII codes.                 *)
(***************************************************************************)
EXTENDS Integers, Sequences, FiniteSets, TLC

VARIABLES
    pc,          \* the statement the process is at
    held,        \* the OS and heap resources open in the process, in acquisition order
    output_fn,   \* main: the destination name (characters)
    req_w,       \* main: -width  (0 = infer)
    req_h,       \* main: -height (0 = infer)
    srv_open,    \* run_daemon: srv_fd is open
    sock_bound,  \* run_daemon: the socket path exists in the filesystem
    cli_open,    \* run_daemon: cli_fd is open
    buf,         \* run_daemon: the bytes read() delivered on this connection
    replies,     \* the reply lines written on this connection, in order
    grabCalls,   \* the calls of grab_once made for this connection
    served,      \* the connections accepted so far
    card,        \* grab_once: card
    count_planes,\* grab_once: plane_res->count_planes
    planes,      \* grab_once: what drmModeGetPlane reported in the loop so far
    i,           \* grab_once: i
    fb_id,       \* grab_once: fb_id
    crtc_id,     \* grab_once: crtc_id
    fb,          \* grab_once: *fb (width, height, bpp)
    out_w,       \* grab_once: out_w
    out_h,       \* grab_once: out_h
    retval,      \* grab_once: retval
    err,         \* grab_once: err
    scaled,      \* save_png / save_jpg: scaled != NULL
    pixels,      \* save_png / save_jpg: the buffer pixels points at
    ret,         \* save_png / save_jpg: ret
    converted,   \* which unpacking convert_to_24 applied to the raw frame
    written,     \* the encoder that was handed image rows in this capture
    daemon_ret,  \* run_daemon: ret
    errno,       \* run_daemon: errno as the accept loop reads it
    overtaken,   \* the resources of this capture that were still held when one acquired
                 \* before them was released
    px,          \* rgb16_to_24 / rgb32_to_24: px
    pixel,       \* rgb16_to_24 / rgb32_to_24: the pixel returned
    src,         \* scale_rgb24 / scale_rgb24_bilinear: src, src_w, src_h
    dst,         \* scale_rgb24 / scale_rgb24_bilinear: dst, dst_w, dst_h
    reads        \* scale_rgb24 / scale_rgb24_bilinear: the source coordinates read

cfgVars  == <<output_fn, req_w, req_h>>
srvVars  == <<srv_open, sock_bound, cli_open, buf, replies, grabCalls, served>>
grabVars == <<card, count_planes, planes, i, fb_id, crtc_id, fb, out_w, out_h, retval, err>>
saveVars == <<scaled, pixels, ret, converted, written>>
funVars  == <<px, pixel, src, dst, reads>>
vars     == <<pc, held, cfgVars, srvVars, grabVars, saveVars, daemon_ret, errno, overtaken, funVars>>

---------------------------------------------------------------------------
(* Bounds of the model. *)

MaxConns  == 2    \* connections accepted in one run
MaxCards  == 2    \* display devices that exist
MaxPlanes == 2    \* planes a device reports
MaxDim    == 2    \* largest framebuffer width / height
MaxReq    == 1    \* largest requested width / height
MaxPad    == 1    \* bytes around the command core in a client's message
MaxParts  == 3    \* pieces a destination name is built from
MaxSrc    == 4    \* largest source width / height in the size resolution alone
MaxSide   == 2    \* largest width / height of a buffer in the resampling alone

(* Program constants.  Every width, height and product of the model is below 2^31,
   so the uint32_t and uint64_t arithmetic of the code is exact on them. *)

EXIT_SUCCESS == 0
EXIT_FAILURE == 1
ENOMEM       == 12
EINTR        == 4

\* errno after a failed accept, mmap or fopen, other than EINTR: some error code.
SysErrnos == {ENOMEM, 13}

---------------------------------------------------------------------------
(* Sequences. *)

Range(s) == { s[k] : k \in DOMAIN s }

SeqsUpTo(S, n) == UNION { [1..k -> S] : k \in 0..n }

Acquire(h, r) == Append(h, r)

\* Closing or freeing r: the latest acquired instance of r leaves the process.
Release(h, r) ==
    IF r \notin Range(h) THEN h
    ELSE LET k == CHOOSE j \in DOMAIN h : h[j] = r /\ \A m \in DOMAIN h : h[m] = r => m <= j
         IN  SubSeq(h, 1, k - 1) \o SubSeq(h, k + 1, Len(h))

\* The resources acquired after the latest r and still held.
Later(h, r) ==
    IF r \notin Range(h) THEN {}
    ELSE LET k == CHOOSE j \in DOMAIN h : h[j] = r /\ \A m \in DOMAIN h : h[m] = r => m <= j
         IN  { h[m] : m \in (k + 1)..Len(h) }

---------------------------------------------------------------------------
(* run_daemon: the command text. *)

\* isspace() in the C locale: \t \n \v \f \r and the space.
IsSpace(c) == c \in {9, 10, 11, 12, 13, 32}

\* The C string that starts at the first byte of b: the bytes before the first NUL.
CString(b) ==
    LET z == CHOOSE k \in DOMAIN b : b[k] = 0 /\ \A m \in 1..(k - 1) : b[m] # 0
    IN  SubSeq(b, 1, z - 1)

\* while (*cmd && isspace(*cmd)) cmd++;
RECURSIVE SkipSpace(_)
SkipSpace(s) ==
    IF s # <<>> /\ IsSpace(Head(s)) THEN SkipSpace(Tail(s)) ELSE s

\* The trailing whitespace is left in place.
TrimRight_Missing(s) == s

\* for (len = strlen(cmd); len > 0; len--) { if (!isspace(cmd[len-1])) break; cmd[len-1] = 0; }
RECURSIVE TrimRight(_)
TrimRight(s) ==
    IF Len(s) > 0 /\ IsSpace(s[Len(s)]) THEN TrimRight(SubSeq(s, 1, Len(s) - 1)) ELSE s

\* cmd as strcmp sees it, for the len bytes read() delivered (buf[len] = '\0').
Command(bytes) == TrimRight(SkipSpace(CString(Append(bytes, 0))))

GRAB == <<71, 82, 65, 66>>

\* !strcmp(cmd, "GRAB")
IsGrab(bytes) == Command(bytes) = GRAB

\* What a client may send: a core, with up to MaxPad bytes before and after it.
PadBytes == {0, 10, 32, 120}                        \* NUL, \n, space, x
Cores    == { <<>>, GRAB,
              <<103, 114, 97, 98>>,                \* grab
              <<71, 82, 65>>,                      \* GRA
              <<71, 82, 65, 66, 66>>,              \* GRABB
              <<71, 82, 65, 66, 32, 120>>,         \* GRAB x
              <<71, 82, 65, 66, 0, 120>> }         \* GRAB NUL x
Messages == { pre \o core \o post :
                pre \in SeqsUpTo(PadBytes, MaxPad), core \in Cores,
                post \in SeqsUpTo(PadBytes, MaxPad) } \ {<<>>}

ReplyOk          == "OK\n"
ReplyGrabFailed  == "ERR grab failed\n"
ReplyUnsupported == "ERR unsupported command\n"

---------------------------------------------------------------------------
(* run_daemon: the accept loop. *)

\* cli_fd = accept(srv_fd, NULL, NULL) succeeds.
Accept ==
    /\ pc = "accept"
    /\ served < MaxConns
    /\ pc' = "read"
    /\ cli_open' = TRUE
    /\ served' = served + 1
    /\ buf' = <<>>
    /\ replies' = <<>>
    /\ grabCalls' = 0
    /\ errno' = 0
    /\ UNCHANGED <<held, cfgVars, daemon_ret, overtaken, funVars, srv_open, sock_bound, grabVars, saveVars>>

\* accept fails with errno == EINTR, and the loop is left all the same.
AcceptInterrupted_Breaks ==
    /\ pc = "accept"
    /\ errno' = EINTR
    /\ pc' = "out_unlink_socket"
    /\ UNCHANGED <<held, cfgVars, daemon_ret, overtaken, funVars, srvVars, grabVars, saveVars>>

\* accept fails with errno == EINTR: continue.
AcceptInterrupted ==
    /\ pc = "accept"
    /\ errno' = EINTR
    /\ pc' = "accept"
    /\ UNCHANGED <<held, cfgVars, daemon_ret, overtaken, funVars, srvVars, grabVars, saveVars>>

\* accept fails otherwise: break.
AcceptFailed ==
    /\ pc = "accept"
    /\ errno' \in SysErrnos
    /\ pc' = "out_unlink_socket"
    /\ UNCHANGED <<held, cfgVars, daemon_ret, overtaken, funVars, srvVars, grabVars, saveVars>>

\* len = read(...) <= 0: close(cli_fd); continue.
ReadNothing ==
    /\ pc = "read"
    /\ cli_open' = FALSE
    /\ pc' = "accept"
    /\ UNCHANGED <<held, cfgVars, daemon_ret, errno, overtaken, funVars, srv_open, sock_bound, buf, replies, grabCalls,
                   served, grabVars, saveVars>>

\* len = read(...) > 0; buf[len] = '\0'.
ReadBytes ==
    /\ pc = "read"
    /\ \E m \in Messages : buf' = m
    /\ pc' = "command"
    /\ UNCHANGED <<held, cfgVars, daemon_ret, errno, overtaken, funVars, srv_open, sock_bound, cli_open, replies, grabCalls,
                   served, grabVars, saveVars>>

\* The trimming loops and the strcmp: GRAB calls grab_once, whose locals start here.
\* buf is not read again.
CommandGrab ==
    /\ pc = "command"
    /\ IsGrab(buf)
    /\ grabCalls' = grabCalls + 1
    /\ pc' = "probe_open"
    /\ card' = 0
    /\ fb_id' = 0
    /\ crtc_id' = 0
    /\ retval' = EXIT_FAILURE
    /\ out_w' = req_w
    /\ out_h' = req_h
    /\ buf' = <<>>
    /\ UNCHANGED <<held, cfgVars, daemon_ret, errno, overtaken, funVars, srv_open, sock_bound, cli_open, replies, served,
                   count_planes, planes, i, fb, err, saveVars>>

\* Any other command: write(cli_fd, "ERR unsupported command\n", 24).
CommandOther ==
    /\ pc = "command"
    /\ ~IsGrab(buf)
    /\ replies' = Append(replies, ReplyUnsupported)
    /\ pc' = "close_cli"
    /\ buf' = <<>>
    /\ UNCHANGED <<held, cfgVars, daemon_ret, errno, overtaken, funVars, srv_open, sock_bound, cli_open, grabCalls, served,
                   grabVars, saveVars>>

\* grab_once has returned: the reply for GRAB.
GrabReply ==
    /\ pc = "grab_reply"
    /\ replies' = Append(replies, IF retval = EXIT_SUCCESS THEN ReplyOk ELSE ReplyGrabFailed)
    /\ pc' = "close_cli"
    /\ UNCHANGED <<held, cfgVars, daemon_ret, errno, overtaken, funVars, srv_open, sock_bound, cli_open, buf, grabCalls, served,
                   grabVars, saveVars>>

\* The loop body ends without close(cli_fd).
CloseClient_Missing ==
    /\ pc = "close_cli"
    /\ pc' = "accept"
    /\ UNCHANGED <<held, cfgVars, daemon_ret, errno, overtaken, funVars, srvVars, grabVars, saveVars>>

\* close(cli_fd) at the end of the loop body.
CloseClient ==
    /\ pc = "close_cli"
    /\ cli_open' = FALSE
    /\ pc' = "accept"
    /\ UNCHANGED <<held, cfgVars, daemon_ret, errno, overtaken, funVars, srv_open, sock_bound, buf, replies, grabCalls, served,
                   grabVars, saveVars>>

\* out_unlink_socket: unlink(socket_path).
OutUnlinkSocket ==
    /\ pc = "out_unlink_socket"
    /\ sock_bound' = FALSE
    /\ pc' = "out_close_srv"
    /\ UNCHANGED <<held, cfgVars, daemon_ret, errno, overtaken, funVars, srv_open, cli_open, buf, replies, grabCalls, served,
                   grabVars, saveVars>>

\* out_close_srv: close(srv_fd); return ret.
OutCloseSrv ==
    /\ pc = "out_close_srv"
    /\ srv_open' = FALSE
    /\ pc' = "returned"
    /\ UNCHANGED <<held, cfgVars, daemon_ret, errno, overtaken, funVars, sock_bound, cli_open, buf, replies, grabCalls, served,
                   grabVars, saveVars>>

---------------------------------------------------------------------------
(* grab_once: the device, the plane and the framebuffer. *)

Plane(ok, f, c) == [ok |-> ok, fb_id |-> f, crtc_id |-> c]

\* What drmModeGetPlane may report for one plane: a failed query (NULL), or the ids.
PlaneReports == { Plane(FALSE, 0, 0) } \cup { Plane(TRUE, f, c) : f \in 0..2, c \in 0..1 }

FB(w, h, b) == [width |-> w, height |-> h, bpp |-> b]

NoFB == FB(0, 0, 0)

\* What drmModeGetFB may report.
Framebuffers == { FB(w, h, b) : w \in 0..MaxDim, h \in 0..MaxDim, b \in {16, 24, 32} }

\* /dev/dri/card<card> opens, or it does not: goto out_return.
ProbeOpen ==
    /\ pc = "probe_open"
    /\ \/ /\ card < MaxCards
          /\ held' = Acquire(held, "drm_fd")
          /\ pc' = "probe_cap"
       \/ /\ held' = held
          /\ pc' = "out_return"
    /\ UNCHANGED <<cfgVars, daemon_ret, errno, overtaken, funVars, srvVars, grabVars, saveVars>>

\* drmGetCap(DRM_CAP_DUMB_BUFFER): break with the descriptor open, or close it and go on.
ProbeCap ==
    /\ pc = "probe_cap"
    /\ \/ /\ pc' = "reopen"
          /\ UNCHANGED <<held, card, overtaken>>
       \/ /\ held' = Release(held, "drm_fd")
          /\ overtaken' = overtaken \cup Later(held, "drm_fd")
          /\ card' = card + 1
          /\ pc' = "probe_open"
    /\ UNCHANGED <<cfgVars, daemon_ret, errno, funVars, srvVars, count_planes, planes, i, fb_id, crtc_id, fb,
                   out_w, out_h, retval, err, saveVars>>

\* drm_fd = open(buf, ...) a second time: the descriptor of the probe stays open, and
\* drm_fd no longer names it.  The path of card is not read again.
Reopen ==
    /\ pc = "reopen"
    /\ \/ /\ held' = Acquire(held, "drm_fd")
          /\ pc' = "set_atomic"
       \/ /\ held' = held
          /\ pc' = "out_return"
    /\ card' = 0
    /\ UNCHANGED <<cfgVars, daemon_ret, errno, overtaken, funVars, srvVars, count_planes, planes, i, fb_id, crtc_id, fb, out_w, out_h,
                   retval, err, saveVars>>

\* drmSetClientCap(DRM_CLIENT_CAP_ATOMIC).
SetAtomic ==
    /\ pc = "set_atomic"
    /\ pc' \in {"set_universal", "out_close_fd"}
    /\ UNCHANGED <<held, cfgVars, daemon_ret, errno, overtaken, funVars, srvVars, grabVars, saveVars>>

\* drmSetClientCap(DRM_CLIENT_CAP_UNIVERSAL_PLANES).
SetUniversal ==
    /\ pc = "set_universal"
    /\ pc' \in {"get_plane_res", "out_close_fd"}
    /\ UNCHANGED <<held, cfgVars, daemon_ret, errno, overtaken, funVars, srvVars, grabVars, saveVars>>

\* plane_res = drmModeGetPlaneResources(drm_fd); i = 0.
GetPlaneResources ==
    /\ pc = "get_plane_res"
    /\ \/ /\ held' = Acquire(held, "plane_res")
          /\ count_planes' \in 0..MaxPlanes
          /\ i' = 0
          /\ pc' = "plane_loop"
       \/ /\ pc' = "out_close_fd"
          /\ UNCHANGED <<held, count_planes, i>>
    /\ UNCHANGED <<cfgVars, daemon_ret, errno, overtaken, funVars, srvVars, card, planes, fb_id, crtc_id, fb, out_w, out_h,
                   retval, err, saveVars>>

\* if (fb_id != 0) break;
Active_AnyController(f, c) == f # 0

\* if (fb_id != 0 && crtc_id != 0) break;
Active(f, c) == f # 0 /\ c # 0

\* One turn of for (i = 0; i < plane_res->count_planes; i++), with what
\* drmModeGetPlane reports for planes[i], or the end of the loop.
PlaneLoop ==
    /\ pc = "plane_loop"
    /\ IF i < count_planes
       THEN \E plane \in PlaneReports :
            /\ planes' = Append(planes, plane)
            /\ IF ~plane.ok
               THEN /\ i' = i + 1
                    /\ UNCHANGED <<pc, fb_id, crtc_id>>
               ELSE /\ fb_id' = plane.fb_id
                    /\ crtc_id' = plane.crtc_id
                    /\ IF Active(plane.fb_id, plane.crtc_id)
                       THEN pc' = "plane_check" /\ i' = i
                       ELSE pc' = pc /\ i' = i + 1
       ELSE /\ pc' = "plane_check"
            /\ UNCHANGED <<planes, i, fb_id, crtc_id>>
    /\ UNCHANGED <<held, cfgVars, daemon_ret, errno, overtaken, funVars, srvVars, card, count_planes, fb, out_w, out_h,
                   retval, err, saveVars>>

\* if (i == plane_res->count_planes) goto out_free_resources.  The reports of the
\* loop were freed in it, and neither i nor the count is read again.
PlaneCheck ==
    /\ pc = "plane_check"
    /\ pc' = IF i = count_planes THEN "out_free_resources" ELSE "get_fb"
    /\ planes' = <<>>
    /\ i' = 0
    /\ count_planes' = 0
    /\ UNCHANGED <<held, cfgVars, daemon_ret, errno, overtaken, funVars, srvVars, card, fb_id, crtc_id, fb,
                   out_w, out_h, retval, err, saveVars>>

\* fb = drmModeGetFB(drm_fd, fb_id).
GetFB ==
    /\ pc = "get_fb"
    /\ \/ /\ held' = Acquire(held, "fb")
          /\ fb' \in Framebuffers
          /\ pc' = "get_fb2"
       \/ /\ pc' = "out_free_resources"
          /\ UNCHANGED <<held, fb>>
    /\ UNCHANGED <<cfgVars, daemon_ret, errno, overtaken, funVars, srvVars, card, count_planes, planes, i, fb_id, crtc_id, out_w, out_h,
                   retval, err, saveVars>>

\* fb2 = drmModeGetFB2(drm_fd, fb_id): handle and pitch are taken from fb2, which is
\* freed at once, or from fb when the query fails.  Neither decides a branch: they
\* only parameterise the export, the mapping and the row copy.
GetFB2 ==
    /\ pc = "get_fb2"
    /\ pc' = "prime"
    /\ UNCHANGED <<held, cfgVars, daemon_ret, errno, overtaken, funVars, srvVars, grabVars, saveVars>>

\* drmPrimeHandleToFD(drm_fd, handle, O_RDONLY, &prime_fd).
Prime ==
    /\ pc = "prime"
    /\ \/ /\ held' = Acquire(held, "prime_fd")
          /\ pc' = "resolve_size"
       \/ /\ held' = held
          /\ pc' = "out_free_fb"
    /\ UNCHANGED <<cfgVars, daemon_ret, errno, overtaken, funVars, srvVars, grabVars, saveVars>>

---------------------------------------------------------------------------
(* grab_once: the output size and the format. *)

\* The branch taken divides by a source dimension that is zero.
DividesByZero(rw, rh, f) ==
    \/ rw = 0 /\ rh # 0 /\ f.height = 0
    \/ rw # 0 /\ rh = 0 /\ f.width = 0

\* out_w after the if / else if chain, where no division by zero takes place.
ResolveW(rw, rh, f) ==
    IF rw = 0 /\ rh = 0 THEN f.width
    ELSE IF rw = 0 THEN (rh * f.width) \div f.height
    ELSE rw

\* The inferred height is rounded to the nearest integer.
ResolveH_Rounded(rw, rh, f) ==
    IF rw = 0 /\ rh = 0 THEN f.height
    ELSE IF rw = 0 THEN rh
    ELSE IF rh = 0 THEN (2 * rw * f.height + f.width) \div (2 * f.width)
    ELSE rh

\* out_h after the if / else if chain, where no division by zero takes place.
ResolveH(rw, rh, f) ==
    IF rw = 0 /\ rh = 0 THEN f.height
    ELSE IF rw = 0 THEN rh
    ELSE IF rh = 0 THEN (rw * f.height) \div f.width
    ELSE rh

\* The integer division by zero is undefined: the process is killed by the trap
\* (SIGFPE), or the division yields some value and the function goes on.
ResolveSize ==
    /\ pc = "resolve_size"
    /\ IF DividesByZero(out_w, out_h, fb)
       THEN \/ /\ pc' = "SIGFPE"
               /\ UNCHANGED <<out_w, out_h>>
            \/ /\ pc' = "check_size"
               /\ \E q \in 0..MaxDim :
                     IF out_w = 0 THEN out_w' = q /\ out_h' = out_h
                                  ELSE out_h' = q /\ out_w' = out_w
       ELSE /\ pc' = "check_size"
            /\ out_w' = ResolveW(out_w, out_h, fb)
            /\ out_h' = ResolveH(out_w, out_h, fb)
    /\ UNCHANGED <<held, cfgVars, daemon_ret, errno, overtaken, funVars, srvVars, card, count_planes, planes, i, fb_id, crtc_id, fb,
                   retval, err, saveVars>>

\* if (out_w == 0 || out_h == 0) { "Invalid output size"; goto out_close_prime_fd; }
CheckSize ==
    /\ pc = "check_size"
    /\ pc' = IF out_w = 0 \/ out_h = 0 THEN "out_close_prime_fd" ELSE "select_format"
    /\ UNCHANGED <<held, cfgVars, daemon_ret, errno, overtaken, funVars, srvVars, grabVars, saveVars>>

\* strstr(hay, needle) != NULL
StrStr(hay, needle) ==
    \E k \in 0..(Len(hay) - Len(needle)) : SubSeq(hay, k + 1, k + Len(needle)) = needle

DotJpg  == <<46, 106, 112, 103>>            \* .jpg
DotJpeg == <<46, 106, 112, 101, 103>>       \* .jpeg
DotPng  == <<46, 112, 110, 103>>            \* .png

\* strstr(output_fn, ".jpg") || strstr(output_fn, ".jpeg")
UseJpeg(fn) == StrStr(fn, DotJpg) \/ StrStr(fn, DotJpeg)

\* The call of save_jpg or save_png; scaled = NULL is the callee's initialiser.
SelectFormat ==
    /\ pc = "select_format"
    /\ pc' = IF UseJpeg(output_fn) THEN "jpg_picture" ELSE "png_picture"
    /\ scaled' = FALSE
    /\ UNCHANGED <<held, cfgVars, daemon_ret, errno, overtaken, funVars, srvVars, grabVars, pixels, ret, converted, written>>

\* if (err < 0) goto out_close_prime_fd; retval = EXIT_SUCCESS;
SaveReturned ==
    /\ pc = "save_returned"
    /\ retval' = IF err < 0 THEN retval ELSE EXIT_SUCCESS
    /\ pc' = "out_close_prime_fd"
    /\ UNCHANGED <<held, cfgVars, daemon_ret, errno, overtaken, funVars, srvVars, card, count_planes, planes, i, fb_id, crtc_id, fb,
                   out_w, out_h, err, saveVars>>

\* out_close_prime_fd: close(prime_fd).
OutClosePrimeFd ==
    /\ pc = "out_close_prime_fd"
    /\ held' = Release(held, "prime_fd")
    /\ overtaken' = overtaken \cup Later(held, "prime_fd")
    /\ pc' = "out_free_fb"
    /\ UNCHANGED <<cfgVars, daemon_ret, errno, funVars, srvVars, grabVars, saveVars>>

\* out_free_fb: drmModeFreeFB(fb).
OutFreeFb ==
    /\ pc = "out_free_fb"
    /\ held' = Release(held, "fb")
    /\ overtaken' = overtaken \cup Later(held, "fb")
    /\ pc' = "out_free_resources"
    /\ UNCHANGED <<cfgVars, daemon_ret, errno, funVars, srvVars, grabVars, saveVars>>

\* out_free_resources: drmModeFreePlaneResources(plane_res).
OutFreeResources ==
    /\ pc = "out_free_resources"
    /\ held' = Release(held, "plane_res")
    /\ overtaken' = overtaken \cup Later(held, "plane_res")
    /\ pc' = "out_close_fd"
    /\ UNCHANGED <<cfgVars, daemon_ret, errno, funVars, srvVars, grabVars, saveVars>>

\* out_close_fd: close(drm_fd), the descriptor of the second open.
OutCloseFd ==
    /\ pc = "out_close_fd"
    /\ held' = Release(held, "drm_fd")
    /\ overtaken' = overtaken \cup Later(held, "drm_fd")
    /\ pc' = "out_return"
    /\ UNCHANGED <<cfgVars, daemon_ret, errno, funVars, srvVars, grabVars, saveVars>>

\* out_return: return retval.  The locals other than the result go out of scope.
OutReturn ==
    /\ pc = "out_return"
    /\ pc' = "grab_reply"
    /\ card' = 0
    /\ count_planes' = 0
    /\ planes' = <<>>
    /\ i' = 0
    /\ fb_id' = 0
    /\ crtc_id' = 0
    /\ fb' = NoFB
    /\ out_w' = 0
    /\ out_h' = 0
    /\ err' = 0
    /\ scaled' = FALSE
    /\ pixels' = "none"
    /\ ret' = 0
    /\ converted' = "none"
    /\ written' = "none"
    /\ overtaken' = {}
    /\ UNCHANGED <<held, cfgVars, daemon_ret, errno, funVars, srvVars, retval>>

---------------------------------------------------------------------------
(* save_png. *)

\* errno after a libpng constructor returned NULL: libpng does not set it, so it is
\* whatever an earlier call left there, zero included.
StaleErrnos == {0} \cup SysErrnos

\* picture = malloc(width * height * 4); if (!picture) return -ENOMEM;
PngMallocPicture ==
    /\ pc = "png_picture"
    /\ \/ /\ held' = Acquire(held, "picture")
          /\ pc' = "png_linear"
          /\ err' = err
       \/ /\ held' = held
          /\ err' = -ENOMEM
          /\ pc' = "save_returned"
    /\ UNCHANGED <<cfgVars, daemon_ret, errno, overtaken, funVars, srvVars, card, count_planes, planes, i, fb_id, crtc_id, fb, out_w,
                   out_h, retval, saveVars>>

\* linear = malloc(linear_size)
PngMallocLinear ==
    /\ pc = "png_linear"
    /\ \/ /\ held' = Acquire(held, "linear")
          /\ pc' = "png_mmap"
          /\ ret' = ret
       \/ /\ held' = held
          /\ ret' = -ENOMEM
          /\ pc' = "png_out_free_picture"
    /\ UNCHANGED <<cfgVars, daemon_ret, errno, overtaken, funVars, srvVars, grabVars, scaled, pixels, converted, written>>

\* buffer = mmap(NULL, mmap_size, PROT_READ, MAP_PRIVATE, prime_fd, 0)
PngMmap ==
    /\ pc = "png_mmap"
    /\ \/ /\ held' = Acquire(held, "buffer")
          /\ pc' = "png_fopen"
          /\ ret' = ret
       \/ /\ held' = held
          /\ \E e \in SysErrnos : ret' = -e
          /\ pc' = "png_out_free_linear"
    /\ UNCHANGED <<cfgVars, daemon_ret, errno, overtaken, funVars, srvVars, grabVars, scaled, pixels, converted, written>>

\* pngfile = fopen(png_fn, "w+")
PngFopen ==
    /\ pc = "png_fopen"
    /\ \/ /\ held' = Acquire(held, "pngfile")
          /\ pc' = "png_create"
          /\ ret' = ret
       \/ /\ held' = held
          /\ \E e \in SysErrnos : ret' = -e
          /\ pc' = "png_out_unmap_buffer"
    /\ UNCHANGED <<cfgVars, daemon_ret, errno, overtaken, funVars, srvVars, grabVars, scaled, pixels, converted, written>>

\* png = png_create_write_struct(...)
PngCreateWrite ==
    /\ pc = "png_create"
    /\ \/ /\ held' = Acquire(held, "png")
          /\ pc' = "png_info"
          /\ ret' = ret
       \/ /\ held' = held
          /\ \E e \in StaleErrnos : ret' = -e
          /\ pc' = "png_out_fclose"
    /\ UNCHANGED <<cfgVars, daemon_ret, errno, overtaken, funVars, srvVars, grabVars, scaled, pixels, converted, written>>

\* info = png_create_info_struct(png)
PngCreateInfo ==
    /\ pc = "png_info"
    /\ \/ /\ held' = Acquire(held, "info")
          /\ pc' = "png_copy"
          /\ ret' = ret
       \/ /\ held' = held
          /\ \E e \in StaleErrnos : ret' = -e
          /\ pc' = "png_out_free_png"
    /\ UNCHANGED <<cfgVars, daemon_ret, errno, overtaken, funVars, srvVars, grabVars, scaled, pixels, converted, written>>

\* The header is written, then the rows are copied from the mapping to linear.
PngCopyRows ==
    /\ pc = "png_copy"
    /\ pc' = "png_convert"
    /\ UNCHANGED <<held, cfgVars, daemon_ret, errno, overtaken, funVars, srvVars, grabVars, saveVars>>

\* convert_to_24: rgb16_to_24 if fb->bpp == 16, rgb32_to_24 for every other bpp.
ConvertTo24(f) == IF f.bpp = 16 THEN "rgb16_to_24" ELSE "rgb32_to_24"

PngConvert ==
    /\ pc = "png_convert"
    /\ converted' = ConvertTo24(fb)
    /\ pc' = "png_scale"
    /\ UNCHANGED <<held, cfgVars, daemon_ret, errno, overtaken, funVars, srvVars, grabVars, scaled, pixels, ret, written>>

\* if (out_w != fb->width)
NeedsScale_WidthOnly(w, h, f) == w # f.width

\* if (out_w != fb->width || out_h != fb->height)
NeedsScale(w, h, f) == w # f.width \/ h # f.height

\* scale_rgb24 reads the pixel at src + 0 even when the source has no pixel: the read
\* may stop the process.
ReadsOutside(f) == f.width = 0 \/ f.height = 0

\* The pixels in the buffer that pixels points at: dst_w * dst_h in what
\* scale_rgb24_auto returned, fb->width * fb->height in picture.
PixelsHeld == IF pixels = "scaled" THEN out_w * out_h ELSE fb.width * fb.height

\* scaled = scale_rgb24_auto(...), or pixels = picture.
PngScale ==
    /\ pc = "png_scale"
    /\ IF NeedsScale(out_w, out_h, fb)
       THEN \/ /\ held' = Acquire(held, "scaled")
               /\ scaled' = TRUE
               /\ pixels' = "scaled"
               /\ pc' = "png_rows"
               /\ ret' = ret
            \/ /\ ret' = -ENOMEM
               /\ pc' = "png_out_free_info"
               /\ UNCHANGED <<held, scaled, pixels>>
            \/ /\ ReadsOutside(fb)
               /\ pc' = "SIGSEGV"
               /\ UNCHANGED <<held, scaled, pixels, ret>>
       ELSE /\ pixels' = "picture"
            /\ pc' = "png_rows"
            /\ UNCHANGED <<held, scaled, ret>>
    /\ UNCHANGED <<cfgVars, daemon_ret, errno, overtaken, funVars, srvVars, grabVars, converted, written>>

\* row_pointers = malloc(sizeof(*row_pointers) * out_h)
PngRowPointers ==
    /\ pc = "png_rows"
    /\ \/ /\ held' = Acquire(held, "row_pointers")
          /\ pc' = "png_write"
          /\ ret' = ret
       \/ /\ held' = held
          /\ ret' = -ENOMEM
          /\ pc' = "png_out_free_info"
    /\ UNCHANGED <<cfgVars, daemon_ret, errno, overtaken, funVars, srvVars, grabVars, scaled, pixels, converted, written>>

\* png_write_image(png, row_pointers); png_write_end(png, info); ret = 0;
PngWriteImage ==
    /\ pc = "png_write"
    /\ written' = "png"
    /\ ret' = 0
    /\ pc' = "png_free_rows"
    /\ UNCHANGED <<held, cfgVars, daemon_ret, errno, overtaken, funVars, srvVars, grabVars, scaled, pixels, converted>>

\* free(row_pointers);
PngFreeRows ==
    /\ pc = "png_free_rows"
    /\ held' = Release(held, "row_pointers")
    /\ overtaken' = overtaken \cup Later(held, "row_pointers")
    /\ pc' = "png_free_scaled"
    /\ UNCHANGED <<cfgVars, daemon_ret, errno, funVars, srvVars, grabVars, saveVars>>

\* free(scaled); scaled is NULL when the frame was not resampled.
PngFreeScaled ==
    /\ pc = "png_free_scaled"
    /\ held' = IF scaled THEN Release(held, "scaled") ELSE held
    /\ overtaken' = IF scaled THEN overtaken \cup Later(held, "scaled") ELSE overtaken
    /\ pc' = "png_out_free_info"
    /\ UNCHANGED <<cfgVars, daemon_ret, errno, funVars, srvVars, grabVars, saveVars>>

\* out_free_info: png_destroy_write_struct(NULL, &info)
PngOutFreeInfo ==
    /\ pc = "png_out_free_info"
    /\ held' = Release(held, "info")
    /\ overtaken' = overtaken \cup Later(held, "info")
    /\ pc' = "png_out_free_png"
    /\ UNCHANGED <<cfgVars, daemon_ret, errno, funVars, srvVars, grabVars, saveVars>>

\* out_free_png: png_destroy_write_struct(&png, NULL)
PngOutFreePng ==
    /\ pc = "png_out_free_png"
    /\ held' = Release(held, "png")
    /\ overtaken' = overtaken \cup Later(held, "png")
    /\ pc' = "png_out_fclose"
    /\ UNCHANGED <<cfgVars, daemon_ret, errno, funVars, srvVars, grabVars, saveVars>>

\* out_fclose: fclose(pngfile)
PngOutFclose ==
    /\ pc = "png_out_fclose"
    /\ held' = Release(held, "pngfile")
    /\ overtaken' = overtaken \cup Later(held, "pngfile")
    /\ pc' = "png_out_unmap_buffer"
    /\ UNCHANGED <<cfgVars, daemon_ret, errno, funVars, srvVars, grabVars, saveVars>>

\* out_unmap_buffer: munmap(buffer, mmap_size)
PngOutUnmapBuffer ==
    /\ pc = "png_out_unmap_buffer"
    /\ held' = Release(held, "buffer")
    /\ overtaken' = overtaken \cup Later(held, "buffer")
    /\ pc' = "png_out_free_linear"
    /\ UNCHANGED <<cfgVars, daemon_ret, errno, funVars, srvVars, grabVars, saveVars>>

\* out_free_linear: free(linear)
PngOutFreeLinear ==
    /\ pc = "png_out_free_linear"
    /\ held' = Release(held, "linear")
    /\ overtaken' = overtaken \cup Later(held, "linear")
    /\ pc' = "png_out_free_picture"
    /\ UNCHANGED <<cfgVars, daemon_ret, errno, funVars, srvVars, grabVars, saveVars>>

\* out_free_picture: free(picture); return ret;
PngOutFreePicture ==
    /\ pc = "png_out_free_picture"
    /\ held' = Release(held, "picture")
    /\ overtaken' = overtaken \cup Later(held, "picture")
    /\ err' = ret
    /\ pc' = "save_returned"
    /\ UNCHANGED <<cfgVars, daemon_ret, errno, funVars, srvVars, card, count_planes, planes, i, fb_id, crtc_id, fb, out_w,
                   out_h, retval, saveVars>>

---------------------------------------------------------------------------
(* save_jpg. *)

\* picture = malloc(width * height * 4); if (!picture) return -ENOMEM;
JpgMallocPicture ==
    /\ pc = "jpg_picture"
    /\ \/ /\ held' = Acquire(held, "picture")
          /\ pc' = "jpg_linear"
          /\ err' = err
       \/ /\ held' = held
          /\ err' = -ENOMEM
          /\ pc' = "save_returned"
    /\ UNCHANGED <<cfgVars, daemon_ret, errno, overtaken, funVars, srvVars, card, count_planes, planes, i, fb_id, crtc_id, fb, out_w,
                   out_h, retval, saveVars>>

\* linear = malloc(linear_size)
JpgMallocLinear ==
    /\ pc = "jpg_linear"
    /\ \/ /\ held' = Acquire(held, "linear")
          /\ pc' = "jpg_mmap"
          /\ ret' = ret
       \/ /\ held' = held
          /\ ret' = -ENOMEM
          /\ pc' = "jpg_out_free_picture"
    /\ UNCHANGED <<cfgVars, daemon_ret, errno, overtaken, funVars, srvVars, grabVars, scaled, pixels, converted, written>>

\* buffer = mmap(NULL, mmap_size, PROT_READ, MAP_PRIVATE, prime_fd, 0)
JpgMmap ==
    /\ pc = "jpg_mmap"
    /\ \/ /\ held' = Acquire(held, "buffer")
          /\ pc' = "jpg_fopen"
          /\ ret' = ret
       \/ /\ held' = held
          /\ \E e \in SysErrnos : ret' = -e
          /\ pc' = "jpg_out_free_linear"
    /\ UNCHANGED <<cfgVars, daemon_ret, errno, overtaken, funVars, srvVars, grabVars, scaled, pixels, converted, written>>

\* jpgfile = fopen(jpg_fn, "w+")
JpgFopen ==
    /\ pc = "jpg_fopen"
    /\ \/ /\ held' = Acquire(held, "jpgfile")
          /\ pc' = "jpg_copy"
          /\ ret' = ret
       \/ /\ held' = held
          /\ \E e \in SysErrnos : ret' = -e
          /\ pc' = "jpg_out_unmap_buffer"
    /\ UNCHANGED <<cfgVars, daemon_ret, errno, overtaken, funVars, srvVars, grabVars, scaled, pixels, converted, written>>

\* The rows are copied from the mapping to linear.
JpgCopyRows ==
    /\ pc = "jpg_copy"
    /\ pc' = "jpg_convert"
    /\ UNCHANGED <<held, cfgVars, daemon_ret, errno, overtaken, funVars, srvVars, grabVars, saveVars>>

JpgConvert ==
    /\ pc = "jpg_convert"
    /\ converted' = ConvertTo24(fb)
    /\ pc' = "jpg_scale"
    /\ UNCHANGED <<held, cfgVars, daemon_ret, errno, overtaken, funVars, srvVars, grabVars, scaled, pixels, ret, written>>

\* scaled = scale_rgb24_auto(...), or pixels = picture; a failed allocation jumps to
\* out_unmap_buffer, past the fclose.
JpgScale ==
    /\ pc = "jpg_scale"
    /\ IF NeedsScale(out_w, out_h, fb)
       THEN \/ /\ held' = Acquire(held, "scaled")
               /\ scaled' = TRUE
               /\ pixels' = "scaled"
               /\ pc' = "jpg_start"
               /\ ret' = ret
            \/ /\ ret' = -ENOMEM
               /\ pc' = "jpg_out_unmap_buffer"
               /\ UNCHANGED <<held, scaled, pixels>>
            \/ /\ ReadsOutside(fb)
               /\ pc' = "SIGSEGV"
               /\ UNCHANGED <<held, scaled, pixels, ret>>
       ELSE /\ pixels' = "picture"
            /\ pc' = "jpg_start"
            /\ UNCHANGED <<held, scaled, ret>>
    /\ UNCHANGED <<cfgVars, daemon_ret, errno, overtaken, funVars, srvVars, grabVars, converted, written>>

\* jpeg_create_compress ... jpeg_start_compress
JpgStartCompress ==
    /\ pc = "jpg_start"
    /\ held' = Acquire(held, "cinfo")
    /\ pc' = "jpg_write"
    /\ UNCHANGED <<cfgVars, daemon_ret, errno, overtaken, funVars, srvVars, grabVars, saveVars>>

\* while (cinfo.next_scanline < cinfo.image_height) jpeg_write_scanlines(...)
JpgWriteScanlines ==
    /\ pc = "jpg_write"
    /\ written' = "jpg"
    /\ pc' = "jpg_finish"
    /\ UNCHANGED <<held, cfgVars, daemon_ret, errno, overtaken, funVars, srvVars, grabVars, scaled, pixels, ret, converted>>

\* jpeg_finish_compress(&cinfo); jpeg_destroy_compress(&cinfo); ret = 0;
JpgFinishCompress ==
    /\ pc = "jpg_finish"
    /\ held' = Release(held, "cinfo")
    /\ overtaken' = overtaken \cup Later(held, "cinfo")
    /\ ret' = 0
    /\ pc' = "jpg_fclose"
    /\ UNCHANGED <<cfgVars, daemon_ret, errno, funVars, srvVars, grabVars, scaled, pixels, converted, written>>

\* fclose(jpgfile);
JpgFclose ==
    /\ pc = "jpg_fclose"
    /\ held' = Release(held, "jpgfile")
    /\ overtaken' = overtaken \cup Later(held, "jpgfile")
    /\ pc' = "jpg_free_scaled"
    /\ UNCHANGED <<cfgVars, daemon_ret, errno, funVars, srvVars, grabVars, saveVars>>

\* free(scaled); scaled is NULL when the frame was not resampled.
JpgFreeScaled ==
    /\ pc = "jpg_free_scaled"
    /\ held' = IF scaled THEN Release(held, "scaled") ELSE held
    /\ overtaken' = IF scaled THEN overtaken \cup Later(held, "scaled") ELSE overtaken
    /\ pc' = "jpg_out_unmap_buffer"
    /\ UNCHANGED <<cfgVars, daemon_ret, errno, funVars, srvVars, grabVars, saveVars>>

\* out_unmap_buffer: munmap(buffer, mmap_size)
JpgOutUnmapBuffer ==
    /\ pc = "jpg_out_unmap_buffer"
    /\ held' = Release(held, "buffer")
    /\ overtaken' = overtaken \cup Later(held, "buffer")
    /\ pc' = "jpg_out_free_linear"
    /\ UNCHANGED <<cfgVars, daemon_ret, errno, funVars, srvVars, grabVars, saveVars>>

\* out_free_linear: free(linear)
JpgOutFreeLinear ==
    /\ pc = "jpg_out_free_linear"
    /\ held' = Release(held, "linear")
    /\ overtaken' = overtaken \cup Later(held, "linear")
    /\ pc' = "jpg_out_free_picture"
    /\ UNCHANGED <<cfgVars, daemon_ret, errno, funVars, srvVars, grabVars, saveVars>>

\* out_free_picture: free(picture); return ret;
JpgOutFreePicture ==
    /\ pc = "jpg_out_free_picture"
    /\ held' = Release(held, "picture")
    /\ overtaken' = overtaken \cup Later(held, "picture")
    /\ err' = ret
    /\ pc' = "save_returned"
    /\ UNCHANGED <<cfgVars, daemon_ret, errno, funVars, srvVars, card, count_planes, planes, i, fb_id, crtc_id, fb, out_w,
                   out_h, retval, saveVars>>

---------------------------------------------------------------------------
(* The service. *)

\* A pixel as packed in the frame: its width in bits, and the value in two 16-bit
\* halves, px = hi * 65536 + lo.
Px(bits, hi, lo) == [bits |-> bits, hi |-> hi, lo |-> lo]

\* uint24_t
RGB(r, g, b) == [r |-> r, g |-> g, b |-> b]

\* A buffer of RGB pixels, row by row.
Buffer(w, h, data) == [w |-> w, h |-> h, data |-> data]

\* No pixel function is being evaluated.
FunIdle ==
    /\ px = Px(0, 0, 0)
    /\ pixel = RGB(0, 0, 0)
    /\ src = Buffer(0, 0, <<>>)
    /\ dst = Buffer(0, 0, <<>>)
    /\ reads = {}

\* The destination names the service may be started with.
OutputNames == { <<97>> \o DotPng, <<97>> \o DotJpg }        \* a.png, a.jpg

\* run_daemon has bound its socket and listens; no capture has run yet.
Init ==
    /\ pc = "accept"
    /\ held = <<>>
    /\ output_fn \in OutputNames
    /\ req_w \in 0..MaxReq
    /\ req_h \in 0..MaxReq
    /\ srv_open = TRUE
    /\ sock_bound = TRUE
    /\ cli_open = FALSE
    /\ buf = <<>>
    /\ replies = <<>>
    /\ grabCalls = 0
    /\ served = 0
    /\ card = 0
    /\ count_planes = 0
    /\ planes = <<>>
    /\ i = 0
    /\ fb_id = 0
    /\ crtc_id = 0
    /\ fb = NoFB
    /\ out_w = 0
    /\ out_h = 0
    /\ retval = EXIT_FAILURE
    /\ err = 0
    /\ scaled = FALSE
    /\ pixels = "none"
    /\ ret = 0
    /\ converted = "none"
    /\ written = "none"
    /\ daemon_ret = EXIT_FAILURE
    /\ errno = 0
    /\ overtaken = {}
    /\ FunIdle

Daemon ==
    \/ Accept \/ AcceptInterrupted \/ AcceptFailed
    \/ ReadNothing \/ ReadBytes
    \/ CommandGrab \/ CommandOther
    \/ GrabReply \/ CloseClient
    \/ OutUnlinkSocket \/ OutCloseSrv

GrabOnce ==
    \/ ProbeOpen \/ ProbeCap \/ Reopen
    \/ SetAtomic \/ SetUniversal
    \/ GetPlaneResources \/ PlaneLoop \/ PlaneCheck
    \/ GetFB \/ GetFB2 \/ Prime
    \/ ResolveSize \/ CheckSize \/ SelectFormat \/ SaveReturned
    \/ OutClosePrimeFd \/ OutFreeFb \/ OutFreeResources \/ OutCloseFd \/ OutReturn

SavePng ==
    \/ PngMallocPicture \/ PngMallocLinear \/ PngMmap \/ PngFopen
    \/ PngCreateWrite \/ PngCreateInfo \/ PngCopyRows \/ PngConvert
    \/ PngScale \/ PngRowPointers \/ PngWriteImage \/ PngFreeRows \/ PngFreeScaled
    \/ PngOutFreeInfo \/ PngOutFreePng \/ PngOutFclose
    \/ PngOutUnmapBuffer \/ PngOutFreeLinear \/ PngOutFreePicture

SaveJpg ==
    \/ JpgMallocPicture \/ JpgMallocLinear \/ JpgMmap \/ JpgFopen
    \/ JpgCopyRows \/ JpgConvert \/ JpgScale
    \/ JpgStartCompress \/ JpgWriteScanlines \/ JpgFinishCompress \/ JpgFclose \/ JpgFreeScaled
    \/ JpgOutUnmapBuffer \/ JpgOutFreeLinear \/ JpgOutFreePicture

Next == Daemon \/ GrabOnce \/ SavePng \/ SaveJpg

Spec == Init /\ [][Next]_vars

---------------------------------------------------------------------------
(* The size resolution of grab_once alone, over a wider range of sizes. *)

\* A capture that holds the exported handle of its framebuffer (lines 516 to 533 of
\* grab_once), for GRAB on the first connection.
CaptureUnderWay ==
    /\ held = <<"drm_fd", "drm_fd", "plane_res", "fb", "prime_fd">>
    /\ srv_open = TRUE
    /\ sock_bound = TRUE
    /\ cli_open = TRUE
    /\ buf = <<>>
    /\ replies = <<>>
    /\ grabCalls = 1
    /\ served = 1
    /\ card = 0
    /\ count_planes = 1
    /\ planes = <<>>
    /\ i = 0
    /\ fb_id = 1
    /\ crtc_id = 1
    /\ retval = EXIT_FAILURE
    /\ err = 0
    /\ scaled = FALSE
    /\ pixels = "none"
    /\ ret = 0
    /\ converted = "none"
    /\ written = "none"
    /\ daemon_ret = EXIT_FAILURE
    /\ errno = 0
    /\ overtaken = {}

InitSize ==
    /\ CaptureUnderWay
    /\ FunIdle
    /\ pc = "resolve_size"
    /\ output_fn \in OutputNames
    /\ req_w \in 0..MaxSrc \cup {960}
    /\ req_h \in 0..MaxSrc \cup {540}
    /\ out_w = req_w
    /\ out_h = req_h
    /\ \E w \in 0..MaxSrc \cup {1920}, h \in 0..MaxSrc \cup {1080} : fb = FB(w, h, 32)

NextSize == ResolveSize

SpecSize == InitSize /\ [][NextSize]_vars

---------------------------------------------------------------------------
(* The format selection of grab_once alone, over more destination names. *)

NameParts == { <<97>>, DotJpg, DotJpeg, DotPng, <<46, 74, 80, 71>> }     \* a .jpg .jpeg .png .JPG

RECURSIVE Concat(_)
Concat(ps) == IF ps = <<>> THEN <<>> ELSE Head(ps) \o Concat(Tail(ps))

Names == { Concat(ps) : ps \in SeqsUpTo(NameParts, MaxParts) } \ {<<>>}

\* A capture that has reached line 530 of grab_once with a 1x1 output.
InitFormat ==
    /\ CaptureUnderWay
    /\ FunIdle
    /\ pc = "select_format"
    /\ output_fn \in Names
    /\ req_w = 0
    /\ req_h = 0
    /\ out_w = 1
    /\ out_h = 1
    /\ fb = FB(1, 1, 32)

NextFormat == SelectFormat

SpecFormat == InitFormat /\ [][NextFormat]_vars

---------------------------------------------------------------------------
(* The pixel conversion alone: one turn of a loop of convert_to_24. *)

\* v & mask, for the mask of the n bits from bit number from upwards
Masked(v, from, n) == ((v \div (2 ^ from)) % (2 ^ n)) * (2 ^ from)

\* pixel.b = (px & 0x1f) << 3, as rgb16_to_24 below, with the high bits of each
\* channel repeated in its low bits.
rgb16_to_24_Replicated(p) ==
    LET r5 == Masked(p.lo, 11, 5) \div 2048
        g6 == Masked(p.lo, 5, 6) \div 32
        b5 == Masked(p.lo, 0, 5)
    IN  RGB(r5 * 8 + r5 \div 4, g6 * 4 + g6 \div 16, b5 * 8 + b5 \div 4)

\* pixel.b = (px & 0x1f) << 3; pixel.g = (px & 0x7e0) >> 3; pixel.r = (px & 0xf800) >> 8;
\* each stored in a uint8_t.
rgb16_to_24(p) ==
    RGB((Masked(p.lo, 11, 5) \div (2 ^ 8)) % 256,
        (Masked(p.lo, 5, 6) \div (2 ^ 3)) % 256,
        (Masked(p.lo, 0, 5) * (2 ^ 3)) % 256)

\* pixel.b = px & 0xff; pixel.g = (px >> 8) & 0xff; pixel.r = (px >> 16) & 0xff;
rgb32_to_24(p) ==
    RGB(p.hi % 256, (p.lo \div (2 ^ 8)) % 256, p.lo % 256)

\* The pixels of the frame the conversion is tried on: every corner of the 5-6-5 cube
\* and its neighbours, and the 8-8-8 corners under several alpha bytes.
Px16Inputs == { Px(16, 0, r * 2048 + g * 32 + b) :
                  r \in {0, 1, 16, 31}, g \in {0, 1, 32, 63}, b \in {0, 1, 16, 31} }

Px32Inputs == { Px(32, a * 256 + r, g * 256 + b) :
                  a \in {0, 1, 128, 255}, r \in {0, 1, 255}, g \in {0, 128, 255}, b \in {0, 255} }

\* save_png at line 244, for GRAB on the first connection and a 1x1 framebuffer.
ConversionUnderWay ==
    /\ held = <<"drm_fd", "drm_fd", "plane_res", "fb", "prime_fd",
                "picture", "linear", "buffer", "pngfile", "png", "info">>
    /\ output_fn = <<97>> \o DotPng
    /\ req_w = 0
    /\ req_h = 0
    /\ srv_open = TRUE
    /\ sock_bound = TRUE
    /\ cli_open = TRUE
    /\ buf = <<>>
    /\ replies = <<>>
    /\ grabCalls = 1
    /\ served = 1
    /\ card = 0
    /\ count_planes = 0
    /\ planes = <<>>
    /\ i = 0
    /\ fb_id = 1
    /\ crtc_id = 1
    /\ retval = EXIT_FAILURE
    /\ err = 0
    /\ scaled = FALSE
    /\ pixels = "none"
    /\ ret = 0
    /\ written = "none"
    /\ daemon_ret = EXIT_FAILURE
    /\ errno = 0
    /\ overtaken = {}

InitConvert ==
    /\ ConversionUnderWay
    /\ pc = "convert_to_24"
    /\ px \in Px16Inputs \cup Px32Inputs
    /\ fb = FB(1, 1, px.bits)
    /\ out_w = 1
    /\ out_h = 1
    /\ converted = "none"
    /\ pixel = RGB(0, 0, 0)
    /\ src = Buffer(0, 0, <<>>)
    /\ dst = Buffer(0, 0, <<>>)
    /\ reads = {}

\* *to++ = rgb16_to_24(*ptr++) if fb->bpp == 16, *to++ = rgb32_to_24(*ptr++) otherwise.
ConvertPixel ==
    /\ pc = "convert_to_24"
    /\ pixel' = IF fb.bpp = 16 THEN rgb16_to_24(px) ELSE rgb32_to_24(px)
    /\ converted' = ConvertTo24(fb)
    /\ pc' = "png_scale"
    /\ UNCHANGED <<held, cfgVars, daemon_ret, errno, overtaken, srvVars, grabVars,
                   scaled, pixels, ret, written, px, src, dst, reads>>

NextConvert == ConvertPixel

SpecConvert == InitConvert /\ [][NextConvert]_vars

---------------------------------------------------------------------------
(* The resampling alone: scale_rgb24 and scale_rgb24_bilinear, one call. *)

\* The pixel of buffer b at column x of row y: b.data + (y * b.w + x) * 3.
At(b, x, y) == b.data[y * b.w + x + 1]

\* The pixel lies inside the buffer.
Inside(b, x, y) == y * b.w + x < Len(b.data)

Channels == {"r", "g", "b"}

\* sx = (uint64_t)x * src_w / dst_w, and sy likewise.
NearestCoord(x, src_n, dst_n) == (x * src_n) \div dst_n

\* What scale_rgb24 reads to produce the pixel (x, y) of dst.
NearestRead(s, w, h, x, y) ==
    [sx |-> NearestCoord(x, s.w, w), sy |-> NearestCoord(y, s.h, h)]

\* sx = (dst_w == 1) ? 0 : (x * (src_w - 1) << 16) / (dst_w - 1), and sy likewise.
BilinearCoord(x, src_n, dst_n) ==
    IF dst_n = 1 THEN 0 ELSE (x * (src_n - 1) * 65536) \div (dst_n - 1)

\* x1 = x0 < max_x ? x0 + 1 : x0, with max_x = src_w ? src_w - 1 : 0.
NextCoord(c0, src_n) == IF c0 < (IF src_n # 0 THEN src_n - 1 ELSE 0) THEN c0 + 1 ELSE c0

\* What scale_rgb24_bilinear reads to produce the pixel (x, y) of dst: p00, p10, p01
\* and p11, whatever their weights.
BilinearRead(s, w, h, x, y) ==
    LET x0 == BilinearCoord(x, s.w, w) \div 65536
        y0 == BilinearCoord(y, s.h, h) \div 65536
    IN  [x0 |-> x0, x1 |-> NextCoord(x0, s.w), y0 |-> y0, y1 |-> NextCoord(y0, s.h)]

\* Blend as below, with the weights of the two columns exchanged.
Blend_Swapped(p00, p10, p01, p11, fx, fy) ==
    LET t0 == p00 * fx + p10 * (65536 - fx)
        t1 == p01 * fx + p11 * (65536 - fx)
        a  == (t0 \div 4096) * (65536 - fy) + (t1 \div 4096) * fy + 2 ^ 19
        b  == (t0 % 4096) * (65536 - fy) + (t1 % 4096) * fy
    IN  ((a + b \div 4096) \div (2 ^ 20)) % 256

\* (p00 * w00 + p10 * w10 + p01 * w01 + p11 * w11 + (1ULL << 31)) >> 32, stored in a
\* uint8_t, with w00 = (65536 - fx) * (65536 - fy) and so on.  The sum is below 2^41:
\* it is kept here as a * 4096 + b, the rows being summed first, which is the same
\* number.
Blend(p00, p10, p01, p11, fx, fy) ==
    LET t0 == p00 * (65536 - fx) + p10 * fx
        t1 == p01 * (65536 - fx) + p11 * fx
        a  == (t0 \div 4096) * (65536 - fy) + (t1 \div 4096) * fy + 2 ^ 19
        b  == (t0 % 4096) * (65536 - fy) + (t1 % 4096) * fy
    IN  ((a + b \div 4096) \div (2 ^ 20)) % 256

\* The pixel (x, y) of what scale_rgb24_bilinear returns.
BilinearPixel(s, w, h, x, y) ==
    LET c  == BilinearRead(s, w, h, x, y)
        fx == BilinearCoord(x, s.w, w) % 65536
        fy == BilinearCoord(y, s.h, h) % 65536
    IN  [ch \in Channels |->
            Blend(At(s, c.x0, c.y0)[ch], At(s, c.x1, c.y0)[ch],
                  At(s, c.x0, c.y1)[ch], At(s, c.x1, c.y1)[ch], fx, fy)]

\* dst[y * dst_w + x]: the column and the row of the k-th pixel of a buffer w wide.
PixelX(k, w) == (k - 1) % w

PixelY(k, w) == (k - 1) \div w

\* scale_rgb24: dst[y * dst_w + x] = src[sy * src_w + sx].
NearestPixel(s, w, h, x, y) ==
    LET c == NearestRead(s, w, h, x, y) IN At(s, c.sx, c.sy)

PixelSamples == { RGB(255, 128, 1), RGB(0, 127, 254) }

\* Memory whose contents the function did not determine.
Indeterminate(w, h) == [1..(w * h) -> PixelSamples]

\* scale_rgb24: NULL if malloc fails; otherwise every destination pixel is a copy of
\* the source pixel read.  A read outside src is undefined: the process may be stopped
\* by the fault, or go on with whatever bytes were there.
ScaleRgb24 ==
    /\ pc = "scale_rgb24_auto"
    /\ \/ /\ pc' = "scale_null"
          /\ UNCHANGED <<dst, reads>>
       \/ /\ reads' = { NearestRead(src, dst.w, dst.h, x, y) : x \in 0..(dst.w - 1), y \in 0..(dst.h - 1) }
          /\ IF \A x \in 0..(dst.w - 1), y \in 0..(dst.h - 1) :
                    LET c == NearestRead(src, dst.w, dst.h, x, y) IN Inside(src, c.sx, c.sy)
             THEN /\ dst' = [dst EXCEPT !.data =
                                [k \in 1..(dst.w * dst.h) |->
                                    NearestPixel(src, dst.w, dst.h,
                                                 PixelX(k, dst.w), PixelY(k, dst.w))]]
                  /\ pc' = "scale_returned"
             ELSE \/ /\ pc' = "SIGSEGV"
                     /\ dst' = dst
                  \/ /\ pc' = "scale_returned"
                     /\ \E m \in Indeterminate(dst.w, dst.h) : dst' = [dst EXCEPT !.data = m]
    /\ UNCHANGED <<held, cfgVars, daemon_ret, errno, overtaken, srvVars, grabVars, saveVars,
                   px, pixel, src>>

\* scale_rgb24_bilinear: NULL if malloc fails; dst as malloc left it if a dimension is
\* zero; otherwise every destination pixel is blended from the four pixels read.
ScaleRgb24Bilinear ==
    /\ pc = "scale_rgb24_auto"
    /\ \/ /\ pc' = "scale_null"
          /\ UNCHANGED <<dst, reads>>
       \/ /\ dst.w = 0 \/ dst.h = 0 \/ src.w = 0 \/ src.h = 0
          /\ pc' = "scale_returned"
          /\ reads' = {}
          /\ \E m \in Indeterminate(dst.w, dst.h) : dst' = [dst EXCEPT !.data = m]
       \/ /\ ~(dst.w = 0 \/ dst.h = 0 \/ src.w = 0 \/ src.h = 0)
          /\ pc' = "scale_returned"
          /\ reads' = { BilinearRead(src, dst.w, dst.h, x, y) : x \in 0..(dst.w - 1), y \in 0..(dst.h - 1) }
          /\ dst' = [dst EXCEPT !.data =
                        [k \in 1..(dst.w * dst.h) |->
                            BilinearPixel(src, dst.w, dst.h,
                                          PixelX(k, dst.w), PixelY(k, dst.w))]]
    /\ UNCHANGED <<held, cfgVars, daemon_ret, errno, overtaken, srvVars, grabVars, saveVars,
                   px, pixel, src>>

\* save_png at line 246 with any source and destination size, whether or not the
\* sizes differ.
InitScale ==
    /\ ConversionUnderWay
    /\ pc = "scale_rgb24_auto"
    /\ \E w \in 0..MaxSide, h \in 0..MaxSide :
          /\ fb = FB(w, h, 32)
          /\ \E m \in Indeterminate(w, h) : src = Buffer(w, h, m)
    /\ out_w \in 1..MaxSide
    /\ out_h \in 1..MaxSide
    /\ dst = Buffer(out_w, out_h, <<>>)
    /\ converted = "rgb32_to_24"
    /\ px = Px(0, 0, 0)
    /\ pixel = RGB(0, 0, 0)
    /\ reads = {}

NextScale == ScaleRgb24 \/ ScaleRgb24Bilinear

SpecScale == InitScale /\ [][NextScale]_vars

---------------------------------------------------------------------------
(* The properties. *)

PngLabels == { "png_picture", "png_linear", "png_mmap", "png_fopen", "png_create",
               "png_info", "png_copy", "png_convert", "png_scale", "png_rows",
               "png_write", "png_free_rows", "png_free_scaled", "png_out_free_info", "png_out_free_png",
               "png_out_fclose", "png_out_unmap_buffer", "png_out_free_linear",
               "png_out_free_picture" }

JpgLabels == { "jpg_picture", "jpg_linear", "jpg_mmap", "jpg_fopen", "jpg_copy",
               "jpg_convert", "jpg_scale", "jpg_start", "jpg_write", "jpg_finish",
               "jpg_fclose", "jpg_free_scaled", "jpg_out_unmap_buffer", "jpg_out_free_linear",
               "jpg_out_free_picture" }

MinOf(S) == CHOOSE x \in S : \A y \in S : x <= y
MaxOf(S) == CHOOSE x \in S : \A y \in S : y <= x

\* The bytes of b from its first to its last byte that is not whitespace.
Trimmed(b) ==
    LET ns == { k \in DOMAIN b : ~IsSpace(b[k]) }
    IN  IF ns = {} THEN <<>> ELSE SubSeq(b, MinOf(ns), MaxOf(ns))

EndsWith(s, suffix) ==
    /\ Len(s) >= Len(suffix)
    /\ SubSeq(s, Len(s) - Len(suffix) + 1, Len(s)) = suffix

\* q = floor(n / d), for d > 0
IsFloor(q, n, d) == q * d <= n /\ n < (q + 1) * d

\* q is an integer nearest to n / d, for d > 0 (either neighbour of a half)
IsNearest(q, n, d) == 2 * q * d - d <= 2 * n /\ 2 * n <= 2 * q * d + d

\* C1: whenever the service is back in Listening (at accept), no capture resource is
\* open: every device descriptor, the exported handle, the mapping, the destination
\* file and every buffer of the captures served so far has been released.
C1_NothingOpenWhenListening == pc = "accept" => held = <<>>

\* C2 as stated: on a connection that delivered at least one byte, grab_once is
\* called (once) if and only if the bytes read, with leading and trailing whitespace
\* removed, are exactly GRAB, and the reply is then OK or ERR grab failed by the result
\* of grab_once; for every other command the reply is ERR unsupported command and
\* grab_once is not called.
C2_GrabIffTrimmedIsGrab ==
    [][ /\ pc = "command" =>
             IF Trimmed(buf) = GRAB
             THEN pc' = "probe_open" /\ grabCalls' = 1
             ELSE pc' = "close_cli" /\ grabCalls' = 0 /\ replies' = <<ReplyUnsupported>>
        /\ pc = "grab_reply" =>
             /\ grabCalls = 1
             /\ replies' = << IF retval = EXIT_SUCCESS THEN ReplyOk ELSE ReplyGrabFailed >>
      ]_vars

\* The bytes of b before its first NUL byte; b itself if it holds none.
BeforeNul(b) ==
    LET z == { k \in DOMAIN b : b[k] = 0 }
    IN  IF z = {} THEN b ELSE SubSeq(b, 1, MinOf(z) - 1)

\* C2, amended: the command is the bytes read up to, not including, the first NUL
\* byte (all of them if there is none).  grab_once is called (once) if and only if the
\* command, with leading and trailing whitespace removed, is exactly GRAB, and the
\* reply is then OK if grab_once returns success and ERR grab failed otherwise; for
\* every other command the reply is ERR unsupported command and grab_once is not called.
C2_GrabIffTrimmedTextIsGrab ==
    [][ /\ pc = "command" =>
             IF Trimmed(BeforeNul(buf)) = GRAB
             THEN pc' = "probe_open" /\ grabCalls' = 1
             ELSE pc' = "close_cli" /\ grabCalls' = 0 /\ replies' = <<ReplyUnsupported>>
        /\ pc = "grab_reply" =>
             /\ grabCalls = 1
             /\ replies' = << IF retval = EXIT_SUCCESS THEN ReplyOk ELSE ReplyGrabFailed >>
      ]_vars

\* A GRAB command was served: grab_once ran once and succeeded, and OK was written.
C2_Witness ==
    /\ pc = "close_cli"
    /\ grabCalls = 1
    /\ retval = EXIT_SUCCESS
    /\ replies = <<ReplyOk>>

\* C3: every accepted connection has received exactly one reply line when it is
\* closed, also when nothing could be read from it.
C3_OneReplyPerConnection == (served > 0 /\ ~cli_open) => Len(replies) = 1

\* C4: a failed capture never terminates the service: the process is not killed in a
\* capture, a capture that failed is answered with ERR grab failed, and the accept
\* loop is left only from accept, with no connection open.
C4_FailedCaptureKeepsService ==
    /\ pc # "SIGFPE"
    /\ (pc = "close_cli" /\ grabCalls = 1 /\ retval # EXIT_SUCCESS)
          => replies = <<ReplyGrabFailed>>
    /\ pc \in {"out_unlink_socket", "out_close_srv", "returned"} => ~cli_open

\* C5: when save_png or save_jpg has returned, the destination file it opened is closed.
C5_DestinationClosedOnReturn ==
    pc = "save_returned" => "pngfile" \notin Range(held) /\ "jpgfile" \notin Range(held)

\* C6: when save_png or save_jpg has returned, the mapping is unmapped and the picture,
\* linear, scaled and row-pointer buffers are freed.
C6_BuffersReleasedOnReturn ==
    pc = "save_returned" =>
        Range(held) \cap {"buffer", "picture", "linear", "scaled", "row_pointers"} = {}

\* C7: whatever the requested and the source sizes are, a capture whose output width
\* or height is zero ends with the invalid-size failure: it is not killed by an
\* arithmetic fault, it does not enter an encoder (no mapping, no destination, no rows
\* written) and it returns failure.
C7_ZeroSizeIsInvalidSize ==
    /\ pc # "SIGFPE"
    /\ (out_w = 0 \/ out_h = 0) =>
          /\ pc \notin PngLabels \cup JpgLabels \cup {"select_format", "save_returned"}
          /\ written = "none"
          /\ pc = "out_return" => retval = EXIT_FAILURE

\* C8 as stated: the inferred dimension is the quotient rounded to the nearest integer.
C8_InferredSizeIsRounded ==
    pc = "check_size" =>
        /\ (req_w = 0 /\ req_h = 0) => out_w = fb.width /\ out_h = fb.height
        /\ (req_w # 0 /\ req_h # 0) => out_w = req_w /\ out_h = req_h
        /\ (req_w # 0 /\ req_h = 0 /\ fb.width # 0) =>
              out_w = req_w /\ IsNearest(out_h, req_w * fb.height, fb.width)
        /\ (req_w = 0 /\ req_h # 0 /\ fb.height # 0) =>
              out_h = req_h /\ IsNearest(out_w, req_h * fb.width, fb.height)

\* C8, amended: with both requested dimensions zero the output is the source size; with
\* both non-zero it is the request; with only the height zero (and a source width of at
\* least 1) the height is floor(requested_width * source_height / source_width); with
\* only the width zero (and a source height of at least 1) the width is
\* floor(requested_height * source_width / source_height).
C8_InferredSizeIsTruncated ==
    pc = "check_size" =>
        /\ (req_w = 0 /\ req_h = 0) => out_w = fb.width /\ out_h = fb.height
        /\ (req_w # 0 /\ req_h # 0) => out_w = req_w /\ out_h = req_h
        /\ (req_w # 0 /\ req_h = 0 /\ fb.width # 0) =>
              out_w = req_w /\ IsFloor(out_h, req_w * fb.height, fb.width)
        /\ (req_w = 0 /\ req_h # 0 /\ fb.height # 0) =>
              out_h = req_h /\ IsFloor(out_w, req_h * fb.width, fb.height)

\* A height was inferred from a width, with a quotient that is no integer.
C8_Witness ==
    /\ pc = "check_size"
    /\ req_w # 0 /\ req_h = 0 /\ fb.width # 0
    /\ (req_w * fb.height) % fb.width # 0
    /\ out_h > 0

\* C9: the JPEG encoder is entered if and only if the destination name ends in .jpg or
\* .jpeg; for every other name the PNG encoder is entered.
C9_FormatFromSuffix ==
    pc \in {"jpg_picture", "png_picture"} =>
        (pc = "jpg_picture" <=> (EndsWith(output_fn, DotJpg) \/ EndsWith(output_fn, DotJpeg)))

\* C10: pixels are unpacked and rows are written only for a framebuffer of 16 or 32
\* bits per pixel.
C10_OnlyRgb16AndRgb32 ==
    (converted # "none" \/ written # "none") => fb.bpp \in {16, 32}

\* C11 (as claimed): rgb16_to_24 gives (255,0,0) for 0xF800, (0,252,0) for 0x07E0 and
\* (0,0,248) for 0x001F; rgb32_to_24 gives (255,0,0) for 0x00FF0000 under every
\* alpha byte.
C11_ChannelsAsClaimed ==
    pc = "png_scale" =>
        /\ px = Px(16, 0, 63488) => pixel = RGB(255, 0, 0)
        /\ px = Px(16, 0, 2016) => pixel = RGB(0, 252, 0)
        /\ px = Px(16, 0, 31) => pixel = RGB(0, 0, 248)
        /\ (px.bits = 32 /\ px.hi % 256 = 255 /\ px.lo = 0) => pixel = RGB(255, 0, 0)

\* C11 (amended): rgb16_to_24 gives (248,0,0) for 0xF800, (0,252,0) for 0x07E0 and
\* (0,0,248) for 0x001F; rgb32_to_24 gives (255,0,0) for 0x00FF0000 under every
\* alpha byte.
C11_ChannelsZeroFilled ==
    pc = "png_scale" =>
        /\ px = Px(16, 0, 63488) => pixel = RGB(248, 0, 0)
        /\ px = Px(16, 0, 2016) => pixel = RGB(0, 252, 0)
        /\ px = Px(16, 0, 31) => pixel = RGB(0, 0, 248)
        /\ (px.bits = 32 /\ px.hi % 256 = 255 /\ px.lo = 0) => pixel = RGB(255, 0, 0)

\* C11: 0xF800 has been converted, and so has 0xFFFF0000 in another run.
C11_Witness == pc = "png_scale" /\ px \in {Px(16, 0, 63488), Px(32, 65535, 0)}

\* C12: when scale_rgb24 or scale_rgb24_bilinear is called on a source of at least one
\* pixel with the destination size equal to the source size, the buffer returned is
\* pixel for pixel the source.
C12_SameSizeIsIdentity ==
    (pc = "scale_returned" /\ src.w >= 1 /\ src.h >= 1 /\ dst.w = src.w /\ dst.h = src.h)
        => dst.data = src.data

\* C12: a 2x2 source whose pixels are not all alike has been resampled to 2x2 by the
\* bilinear function.
C12_Witness ==
    /\ pc = "scale_returned"
    /\ src.w = 2 /\ src.h = 2 /\ dst.w = 2 /\ dst.h = 2
    /\ src.data[1] # src.data[2]
    /\ \E c \in reads : DOMAIN c = {"x0", "x1", "y0", "y1"}

\* C19: with a destination of at least 1x1, every source pixel scale_rgb24 and
\* scale_rgb24_bilinear read lies inside the source (sx, x0, x1 below src_w and sy, y0,
\* y1 below src_h, with x1 = min(x0 + 1, src_w - 1) and y1 = min(y0 + 1, src_h - 1)),
\* and nothing is read from a source of zero pixels.
C19_ReadsInsideSource ==
    pc \in {"scale_returned", "SIGSEGV"} =>
        /\ \A c \in reads :
              IF DOMAIN c = {"sx", "sy"}
              THEN c.sx < src.w /\ c.sy < src.h
              ELSE /\ c.x0 < src.w /\ c.x1 < src.w
                   /\ c.y0 < src.h /\ c.y1 < src.h
                   /\ c.x1 = MinOf({c.x0 + 1, src.w - 1})
                   /\ c.y1 = MinOf({c.y0 + 1, src.h - 1})
        /\ (src.w = 0 \/ src.h = 0) => reads = {}

\* C13: resources are released in the reverse order of their acquisition: no resource
\* is released after one that was acquired before it and released while it was held
\* (of two resources that are both released, the later acquired goes first).
C13_ReleasedInReverseOrder ==
    [][\A r \in Range(held) :
          (held' # held /\ held' = Release(held, r)) => r \notin overtaken]_vars

\* C14: when an encoder is about to be handed the first image row (png_write_image,
\* jpeg_write_scanlines), the rows have been copied and neither the mapping of the
\* framebuffer nor the exported handle is open any more.
C14_MappingGoneBeforeEncoding ==
    pc \in {"png_write", "jpg_write"} =>
        /\ converted # "none"
        /\ "buffer" \notin Range(held)
        /\ "prime_fd" \notin Range(held)

\* The statements of run_daemon outside its call of grab_once.
DaemonLabels == { "accept", "read", "command", "grab_reply", "close_cli",
                  "out_unlink_socket", "out_close_srv", "returned" }

\* C15: connections are handled one at a time: accept is only called with no client
\* connection open (the previous one has been closed), a capture only runs for the one
\* open connection, and at most one capture runs for it.
C15_OneConnectionAtATime ==
    /\ pc = "accept" => ~cli_open
    /\ pc \in {"read", "command", "grab_reply", "close_cli"} => cli_open
    /\ pc \notin DaemonLabels => (cli_open /\ grabCalls = 1)
    /\ grabCalls <= 1

\* C15: the capture of a second connection is writing its image.
C15_Witness == served = 2 /\ cli_open /\ pc = "png_write"

\* The planes of the list whose query succeeded with a framebuffer id and a controller
\* id that are both non-zero.
Qualifying(ps) == { k \in DOMAIN ps : ps[k].ok /\ ps[k].fb_id # 0 /\ ps[k].crtc_id # 0 }

\* C16: when the plane loop of grab_once is over, the planes it went through, in order,
\* either end with the first plane whose framebuffer id and controller id are both
\* non-zero, and that plane's framebuffer is the one queried next; or none of all the
\* planes of the device qualifies, and the capture goes to its cleanup with no
\* framebuffer queried and nothing exported.
C16_FirstActivePlane ==
    [][pc = "plane_check" =>
         /\ "fb" \notin Range(held) /\ "prime_fd" \notin Range(held)
         /\ IF Qualifying(planes) # {}
            THEN /\ MinOf(Qualifying(planes)) = Len(planes)
                 /\ i = Len(planes) - 1
                 /\ pc' = "get_fb"
                 /\ fb_id' = planes[Len(planes)].fb_id
                 /\ held' = held
            ELSE /\ Len(planes) = count_planes
                 /\ pc' = "out_free_resources"
                 /\ held' = held]_vars

\* C16: the loop has passed a plane with a framebuffer but no controller and stopped
\* at the next plane, which has another framebuffer.
C16_Witness ==
    /\ pc = "plane_check"
    /\ Len(planes) = 2
    /\ planes[1].ok /\ planes[1].fb_id = 1 /\ planes[1].crtc_id = 0
    /\ planes[2].ok /\ planes[2].fb_id = 2 /\ planes[2].crtc_id = 1
    /\ fb_id = 2

\* C17: when an encoder is about to write the image rows, out_w and out_h are both
\* positive and the buffer it is handed holds out_w * out_h pixels: what the resampler
\* returned if the output size differs from the framebuffer's, and otherwise picture
\* itself, with no resampling.
C17_EncoderGetsOutputSize ==
    pc \in {"png_write", "jpg_write"} =>
        /\ out_w > 0 /\ out_h > 0
        /\ PixelsHeld = out_w * out_h
        /\ IF out_w # fb.width \/ out_h # fb.height
           THEN pixels = "scaled" /\ scaled /\ "scaled" \in Range(held)
           ELSE pixels = "picture" /\ ~scaled

\* C17: a 2x1 frame resampled to 1x1 is about to be written as PNG.
C17_Witness ==
    /\ pc = "png_write"
    /\ fb.width = 2 /\ fb.height = 1 /\ out_w = 1 /\ out_h = 1
    /\ pixels = "scaled"

\* C18: an accept that fails with EINTR is retried, the server staying in Listening
\* with its socket as it was; an accept that fails otherwise ends the loop, the socket
\* path is then unlinked, the listening socket closed, and run_daemon returns a
\* failure status.
C18_AcceptFailures ==
    /\ [](pc = "out_close_srv" => (srv_open /\ ~sock_bound))
    /\ [](pc = "returned" => (~srv_open /\ ~sock_bound /\ daemon_ret # EXIT_SUCCESS))
    /\ [][(pc = "accept" /\ pc' # "read") =>
             /\ UNCHANGED <<held, srvVars, daemon_ret>>
             /\ pc' = IF errno' = EINTR THEN "accept" ELSE "out_unlink_socket"]_vars
    /\ [][(pc = "out_unlink_socket" => pc' = "out_close_srv")
          /\ (pc = "out_close_srv" => pc' = "returned")]_vars

\* C18: after a connection was served, an accept failed for good and run_daemon has
\* returned.
C18_Witness == pc = "returned" /\ served = 1 /\ errno # EINTR

\* The process was killed by a signal: no statement of the program runs any more.
Killed == pc \in {"SIGFPE", "SIGSEGV"}

\* C20: every capture terminates and every accepted connection is closed by the
\* server, which then accepts again: the server is never stopped for good while a
\* connection it accepted is still open.
C20_ConnectionNeverAbandoned == cli_open => ~Killed


===========================================================================
